---- MODULE Spec2Model ----
(***************************************************************************)
(* word_grid: a generator of letter grids whose rows and columns are       *)
(* dictionary words.  The model follows src/word_grid.cpp: main calls      *)
(* parse_arguments, get_word_lists and find_grids in that order.           *)
(* Characters are their ASCII codes, a string is a sequence of codes.      *)
(***************************************************************************)
EXTENDS Integers, Sequences, FiniteSets

VARIABLES
    pc,             \* the function main is executing, or "exit"
    status,         \* the process's exit status once pc = "exit"
    argv,           \* the command line: [opts, pos]
    args,           \* main's std::optional<Args>
    dictionary,     \* state of the std::ifstream
    consumed,       \* the distinct raw lines std::getline has delivered so far
    row_words,      \* std::unordered_set row_words
    col_words,      \* std::unordered_set col_words
    row_words_list, \* sorted vector handed to find_grids
    col_prefixes,   \* vector of prefix sets handed to find_grids
    stack,          \* call stack of find_grids: frames [word_list, rows, i]
    cout            \* the grids printed so far, in order

vars == <<pc, status, argv, args, dictionary, consumed, row_words,
          col_words, row_words_list, col_prefixes, stack, cout>>

----------------------------------------------------------------------------
(* Characters and strings *)

UpperLetters == <<"A","B","C","D","E","F","G","H","I","J","K","L","M",
                  "N","O","P","Q","R","S","T","U","V","W","X","Y","Z">>
LowerLetters == <<"a","b","c","d","e","f","g","h","i","j","k","l","m",
                  "n","o","p","q","r","s","t","u","v","w","x","y","z">>
DigitChars == <<"0","1","2","3","4","5","6","7","8","9">>

\* ASCII code of a character literal
Ord(c) ==
    IF \E i \in 1..26 : UpperLetters[i] = c
    THEN 64 + (CHOOSE i \in 1..26 : UpperLetters[i] = c)
    ELSE IF \E i \in 1..26 : LowerLetters[i] = c
    THEN 96 + (CHOOSE i \in 1..26 : LowerLetters[i] = c)
    ELSE IF \E i \in 1..10 : DigitChars[i] = c
    THEN 47 + (CHOOSE i \in 1..10 : DigitChars[i] = c)
    ELSE IF c = "'" THEN 39
    ELSE IF c = "-" THEN 45
    ELSE IF c = "+" THEN 43
    ELSE 32

\* a string literal, written as a tuple of its characters
Str(s) == [i \in 1..Len(s) |-> Ord(s[i])]

Range(s) == {s[i] : i \in 1..Len(s)}

ALPHABET_LEN == 26
INT_MAX == 2147483647

----------------------------------------------------------------------------
(* parse_arguments *)

DefaultArgs ==
    [use_apostrophe |-> TRUE, restrict_small_words |-> TRUE, width |-> 0, height |-> 0]

IsDigit(c) == c >= 48 /\ c <= 57

\* std::optional: the empty sequence, or the sequence holding the value
nullopt == <<>>
make_optional(x) == <<x>>

\* std::stoi on the digits of s from position i with accumulator acc: the
\* value, or out_of_range once it no longer fits an int
RECURSIVE StoiDigits(_, _, _)
StoiDigits(s, i, acc) ==
    IF i > Len(s) \/ ~IsDigit(s[i]) THEN [threw |-> "", value |-> acc]
    ELSE IF acc > (INT_MAX - (s[i] - 48)) \div 10
         THEN [threw |-> "out_of_range", value |-> 0]
    ELSE StoiDigits(s, i + 1, acc * 10 + (s[i] - 48))

\* std::stoi: optional sign, then the longest run of digits; characters after
\* the digits are ignored; no digit at all is invalid_argument
Stoi(s) ==
    LET signed == Len(s) >= 1 /\ s[1] \in {43, 45}
        first == IF signed THEN 2 ELSE 1
    IN  IF first > Len(s) \/ ~IsDigit(s[first])
        THEN [threw |-> "invalid_argument", value |-> 0]
        ELSE LET r == StoiDigits(s, first, 0)
             IN  IF signed /\ s[1] = 45 THEN [r EXCEPT !.value = 0 - r.value] ELSE r

\* convert_dim: the optional<int>, empty when std::stoi throws
convert_dim(dim) ==
    LET r == Stoi(dim)
    IN  IF r.threw # "" THEN nullopt ELSE make_optional(r.value)

\* the options getopt_long delivers, applied in order; 'h', ':' and '?' return
RECURSIVE ApplyOpts(_, _)
ApplyOpts(opts, a) ==
    IF opts = <<>> THEN make_optional(a)
    ELSE IF Head(opts) = "n"
         THEN ApplyOpts(Tail(opts), [a EXCEPT !.use_apostrophe = FALSE])
    ELSE IF Head(opts) = "s"
         THEN ApplyOpts(Tail(opts), [a EXCEPT !.restrict_small_words = FALSE])
    ELSE nullopt

\* the outcomes of the comparison args.width * args.height > ALPHABET_LEN for
\* positive ints: the product of two ints that does not fit an int is
\* undefined, and the comparison may then go either way
ProductTooLarge(width, height) ==
    IF width > INT_MAX \div height THEN BOOLEAN
    ELSE {width * height > ALPHABET_LEN}

\* the values parse_arguments can return for a command line
parse_arguments(av) ==
    LET a == ApplyOpts(av.opts, DefaultArgs)
    IN  IF a = nullopt THEN {nullopt}
        ELSE IF Len(av.pos) < 2 \/ Len(av.pos) > 2 THEN {nullopt}
        ELSE LET width == convert_dim(av.pos[1])
                 height == convert_dim(av.pos[2])
             IN  IF width = nullopt \/ height = nullopt THEN {nullopt}
                 ELSE IF width[1] <= 0 THEN {nullopt}
                 ELSE IF height[1] <= 0 THEN {nullopt}
                 ELSE {IF big THEN nullopt
                       ELSE make_optional([a[1] EXCEPT !.width = width[1],
                                                       !.height = height[1]]) :
                       big \in ProductTooLarge(width[1], height[1])}

----------------------------------------------------------------------------
(* get_word_lists *)

toupper(c) == IF c >= 97 /\ c <= 122 THEN c - 32 ELSE c

\* variant: the apostrophes are removed when the flag is cleared instead
StripApostrophesWhenCleared(word, use_apostrophe) ==
    IF ~use_apostrophe THEN SelectSeq(word, LAMBDA c : c # 39) ELSE word

\* word.erase(std::remove(word.begin(), word.end(), '\''), word.end()),
\* done when args.use_apostrophe is set
StripApostrophes(word, use_apostrophe) ==
    IF use_apostrophe THEN SelectSeq(word, LAMBDA c : c # 39) ELSE word

\* the word after the loop has upper-cased its characters
Uppercased(word) == [i \in 1..Len(word) |-> toupper(word[i])]

\* variant: the loop without the search in seen
skip_word_unseen(word) ==
    \E i \in 1..Len(word) : word[i] < 65 \/ word[i] > 90

\* skip_word after the character loop: some character is no letter A-Z, or
\* is already in seen
skip_word(word) ==
    \E i \in 1..Len(word) :
        \/ word[i] < 65
        \/ word[i] > 90
        \/ \E j \in 1..(i - 1) : word[j] = word[i]

legal_small_words ==
    { Str(<<"A">>), Str(<<"I">>),
      Str(<<"A","H">>), Str(<<"A","M">>), Str(<<"A","N">>), Str(<<"A","S">>),
      Str(<<"A","T">>), Str(<<"B","E">>), Str(<<"B","Y">>), Str(<<"D","C">>),
      Str(<<"D","O">>),
      Str(<<"D","R">>), Str(<<"E","X">>), Str(<<"G","O">>), Str(<<"H","A">>),
      Str(<<"H","E">>), Str(<<"H","I">>), Str(<<"H","O">>), Str(<<"I","F">>),
      Str(<<"I","N">>), Str(<<"I","S">>),
      Str(<<"I","T">>), Str(<<"L","A">>), Str(<<"L","O">>), Str(<<"M","A">>),
      Str(<<"M","E">>), Str(<<"M","R">>), Str(<<"M","S">>), Str(<<"M","Y">>),
      Str(<<"N","O">>), Str(<<"O","F">>),
      Str(<<"O","H">>), Str(<<"O","K">>), Str(<<"O","N">>), Str(<<"O","R">>),
      Str(<<"O","W">>), Str(<<"O","X">>), Str(<<"P","A">>), Str(<<"P","I">>),
      Str(<<"S","O">>), Str(<<"S","T">>),
      Str(<<"T","O">>), Str(<<"U","P">>), Str(<<"U","S">>), Str(<<"W","E">>) }

\* variant: word.size() < 2 in place of word.size() <= 2
IllegalSmallWordBelowTwo(word, restrict_small_words) ==
    restrict_small_words /\ Len(word) < 2 /\ word \notin legal_small_words

\* the small-word test that makes the loop continue
IllegalSmallWord(word, restrict_small_words) ==
    restrict_small_words /\ Len(word) <= 2 /\ word \notin legal_small_words

\* one iteration of the getline loop on a raw line: the word the iteration
\* reaches the insertions with, or nullopt when it continues before them
FilterWord(raw, a) ==
    LET word == Uppercased(StripApostrophes(raw, a.use_apostrophe))
    IN  IF skip_word(word) THEN nullopt
        ELSE IF IllegalSmallWord(word, a.restrict_small_words) THEN nullopt
        ELSE make_optional(word)

\* the two insertions at the end of an iteration
InsertRow(word, a, rows) == IF Len(word) = a.width THEN rows \cup {word} ELSE rows
InsertCol(word, a, cols) == IF Len(word) = a.height THEN cols \cup {word} ELSE cols

\* operator< of std::string
StrLess(x, y) ==
    \/ \E i \in 1..Len(x) :
          /\ i <= Len(y)
          /\ x[i] < y[i]
          /\ \A j \in 1..(i - 1) : x[j] = y[j]
    \/ /\ Len(x) < Len(y)
       /\ \A j \in 1..Len(x) : x[j] = y[j]

\* the orders in which an unordered_set may hand out its elements
IterationOrders(S) ==
    {s \in [1..Cardinality(S) -> S] : \A x \in S : \E i \in 1..Cardinality(S) : s[i] = x}

RECURSIVE InsertSorted(_, _)
InsertSorted(x, s) ==
    IF s = <<>> THEN <<x>>
    ELSE IF StrLess(x, Head(s)) THEN <<x>> \o s
    ELSE <<Head(s)>> \o InsertSorted(x, Tail(s))

\* variant: the list is left in the iteration order of the set
Unsorted(s) == s

\* std::sort(row_words_list.begin(), row_words_list.end())
RECURSIVE Sort(_)
Sort(s) == IF s = <<>> THEN <<>> ELSE InsertSorted(Head(s), Sort(Tail(s)))

\* variant: col.substr(0, i)
PrefixOneShort(col, n) == SubSeq(col, 1, n - 1)

\* col.substr(0, i + 1) for the zero-based i: the first n characters
Prefix(col, n) == SubSeq(col, 1, IF n < Len(col) THEN n ELSE Len(col))

\* variant: the loop stops at i < height - 1, the last entry stays empty
BuildColPrefixesButLast(cols, height) ==
    [n \in 1..height |-> IF n = height THEN {} ELSE {SubSeq(col, 1, n) : col \in cols}]

\* the col_prefixes vector built from col_words
BuildColPrefixes(cols, height) ==
    [n \in 1..height |-> {Prefix(col, n) : col \in cols}]

----------------------------------------------------------------------------
(* find_grids *)

\* the string col built for character position i of word: that character of
\* every placed row, then of word
Column(rows, word, i) ==
    [k \in 1..(Len(rows) + 1) |-> IF k <= Len(rows) THEN rows[k][i] ELSE word[i]]

\* variant: the loop breaks after the first character position
MatchFirstColumn(rows, word, prefixes) ==
    Column(rows, word, 1) \in prefixes[Len(rows) + 1]

\* match after the loop over the character positions of word
Match(rows, word, prefixes) ==
    \A i \in 1..Len(word) :
        Column(rows, word, i) \in prefixes[Len(rows) + 1]

\* variant: std::find of the first character of word in try_word
SharesFirstLetter(try_word, word) ==
    \E i \in 1..Len(try_word) : try_word[i] = word[1]

\* the remove_if predicate: std::find_first_of finds a character of try_word
\* among those of word
SharesLetter(try_word, word) ==
    \E i \in 1..Len(try_word) : \E j \in 1..Len(word) : try_word[i] = word[j]

\* variant: only the word itself is removed from the copy
NextWordListWithoutWord(word_list, word) ==
    SelectSeq(word_list, LAMBDA try_word : try_word # word)

\* next_word_list: the copy of word_list without the words the predicate removes
NextWordList(word_list, word) ==
    SelectSeq(word_list, LAMBDA try_word : ~SharesLetter(try_word, word))

\* static_cast<int>(rows.size()) == height - 1
LastRow(rows, height) == Len(rows) = height - 1

\* a call of find_grids: its arguments and the position of its loop
Frame(word_list, rows) == [word_list |-> word_list, rows |-> rows, i |-> 1]

----------------------------------------------------------------------------
(* Inputs *)

\* largest number of distinct lines the dictionary holds
MaxLines == 4

\* the lines a dictionary is made of
RawWords ==
    { Str(<<"A">>), Str(<<"I">>), Str(<<"M">>),
      Str(<<"A","M">>), Str(<<"h","e">>), Str(<<"A","H">>), Str(<<"M","E">>),
      Str(<<"a","m">>), Str(<<"X","Z">>), Str(<<"A","A">>),
      Str(<<"D","O","N","'","T">>), <<>> }

WidthArgs ==
    { Str(<<"0">>), Str(<<"-","1">>), Str(<<"x">>), Str(<<"1">>), Str(<<"2">>),
      Str(<<"4">>), Str(<<"2","7">>), Str(<<"1","0","7","3","7","4","1","8","2","4">>),
      Str(<<"9","9","9","9","9","9","9","9","9","9","9">>) }

HeightArgs ==
    { Str(<<"0">>), Str(<<"x">>), Str(<<"1">>), Str(<<"2">>), Str(<<"2","x">>),
      Str(<<"4">>), Str(<<"2","7">>) }

OptionLists == { <<>>, <<"n">>, <<"s">>, <<"n","s">>, <<"h">>, <<"?">> }

Argvs ==
    {[opts |-> o, pos |-> p] :
        o \in OptionLists,
        p \in {<<w, h>> : w \in WidthArgs, h \in HeightArgs}
              \cup {<<Str(<<"2">>)>>, <<Str(<<"2">>), Str(<<"2">>), Str(<<"2">>)>>}}

----------------------------------------------------------------------------
(* The program *)

Init ==
    /\ pc = "parse_arguments"
    /\ status = "running"
    /\ argv \in Argvs
    /\ args = nullopt
    /\ dictionary = "unopened"
    /\ consumed = {}
    /\ row_words = {}
    /\ col_words = {}
    /\ row_words_list = <<>>
    /\ col_prefixes = <<>>
    /\ stack = <<>>
    /\ cout = <<>>

\* main: args = parse_arguments(argc, argv); if(!args) return EXIT_FAILURE
ParseArguments ==
    /\ pc = "parse_arguments"
    /\ \E r \in parse_arguments(argv) :
        /\ args' = r
        /\ pc' = IF r = nullopt THEN "exit" ELSE "get_word_lists"
        /\ status' = IF r = nullopt THEN "EXIT_FAILURE" ELSE status
    /\ UNCHANGED <<argv, dictionary, consumed, row_words, col_words,
                   row_words_list, col_prefixes, stack, cout>>

\* get_word_lists: the ifstream is constructed; a failed open returns nullopt
\* and main returns EXIT_FAILURE
OpenDictionary ==
    /\ pc = "get_word_lists"
    /\ dictionary = "unopened"
    /\ \E opened \in BOOLEAN :
        /\ dictionary' = IF opened THEN "good" ELSE "fail"
        /\ pc' = IF opened THEN pc ELSE "exit"
        /\ status' = IF opened THEN status ELSE "EXIT_FAILURE"
    /\ UNCHANGED <<argv, args, consumed, row_words, col_words,
                   row_words_list, col_prefixes, stack, cout>>

\* one iteration of the while(std::getline(...)) loop
GetLine ==
    /\ pc = "get_word_lists"
    /\ dictionary = "good"
    /\ \E raw \in RawWords :
        /\ raw \in consumed \/ Cardinality(consumed) < MaxLines
        /\ consumed' = consumed \cup {raw}
        /\ LET word == FilterWord(raw, args[1])
           IN  /\ row_words' = IF word = nullopt THEN row_words
                               ELSE InsertRow(word[1], args[1], row_words)
               /\ col_words' = IF word = nullopt THEN col_words
                               ELSE InsertCol(word[1], args[1], col_words)
    /\ UNCHANGED <<pc, status, argv, args, dictionary,
                   row_words_list, col_prefixes, stack, cout>>

\* std::getline sets badbit: the exception is caught, get_word_lists returns
\* nullopt and main returns EXIT_FAILURE
ReadError ==
    /\ pc = "get_word_lists"
    /\ dictionary = "good"
    /\ dictionary' = "bad"
    /\ pc' = "exit"
    /\ status' = "EXIT_FAILURE"
    /\ UNCHANGED <<argv, args, consumed, row_words, col_words,
                   row_words_list, col_prefixes, stack, cout>>

\* std::getline reaches the end of the file: the row words are copied out of
\* the unordered_set in its iteration order and sorted, the prefix sets are
\* built, and main calls find_grids(row_words, col_prefixes, args->height)
EndOfFile ==
    /\ pc = "get_word_lists"
    /\ dictionary = "good"
    /\ dictionary' = "eof"
    /\ \E order \in IterationOrders(row_words) :
        /\ row_words_list' = Sort(order)
        /\ stack' = <<Frame(Sort(order), <<>>)>>
    /\ col_prefixes' = BuildColPrefixes(col_words, args[1].height)
    /\ pc' = "find_grids"
    /\ UNCHANGED <<status, argv, args, consumed, row_words, col_words, cout>>

Top == stack[Len(stack)]
Word == Top.word_list[Top.i]
InLoop == pc = "find_grids" /\ Top.i <= Len(Top.word_list)
Advance == [stack EXCEPT ![Len(stack)].i = @ + 1]

\* the word does not fit the prefixes: continue
Reject ==
    /\ InLoop
    /\ ~Match(Top.rows, Word, col_prefixes)
    /\ stack' = Advance
    /\ UNCHANGED <<pc, status, argv, args, dictionary, consumed, row_words,
                   col_words, row_words_list, col_prefixes, cout>>

\* the word fits and is the last row: print the grid, continue
Emit ==
    /\ InLoop
    /\ Match(Top.rows, Word, col_prefixes)
    /\ LastRow(Top.rows, args[1].height)
    /\ cout' = Append(cout, Append(Top.rows, Word))
    /\ stack' = Advance
    /\ UNCHANGED <<pc, status, argv, args, dictionary, consumed, row_words,
                   col_words, row_words_list, col_prefixes>>

\* the word fits and is not the last row: the recursive call
Descend ==
    /\ InLoop
    /\ Match(Top.rows, Word, col_prefixes)
    /\ ~LastRow(Top.rows, args[1].height)
    /\ stack' = Append(stack, Frame(NextWordList(Top.word_list, Word),
                                    Append(Top.rows, Word)))
    /\ UNCHANGED <<pc, status, argv, args, dictionary, consumed, row_words,
                   col_words, row_words_list, col_prefixes, cout>>

\* the loop of the innermost call is over: it returns, to the loop of its
\* caller, or to main, which returns EXIT_SUCCESS
Return ==
    /\ pc = "find_grids"
    /\ Top.i > Len(Top.word_list)
    /\ IF Len(stack) = 1
       THEN /\ stack' = <<>>
            /\ pc' = "exit"
            /\ status' = "EXIT_SUCCESS"
       ELSE /\ stack' = [SubSeq(stack, 1, Len(stack) - 1)
                            EXCEPT ![Len(stack) - 1].i = @ + 1]
            /\ UNCHANGED <<pc, status>>
    /\ UNCHANGED <<argv, args, dictionary, consumed, row_words,
                   col_words, row_words_list, col_prefixes, cout>>

Next ==
    \/ ParseArguments
    \/ OpenDictionary
    \/ GetLine
    \/ ReadError
    \/ EndOfFile
    \/ Reject
    \/ Emit
    \/ Descend
    \/ Return

Spec == Init /\ [][Next]_vars

\* the program keeps running until main returns
FairSpec == Spec /\ WF_vars(Reject \/ Emit \/ Descend \/ Return)

----------------------------------------------------------------------------
(* Vocabulary of the properties *)

Parsed == args # nullopt
Width == args[1].width
Height == args[1].height
IndexBuilt == dictionary = "eof"
Finished == pc = "exit" /\ status = "EXIT_SUCCESS"

Letters(w) == {w[i] : i \in 1..Len(w)}
IsUpperLetter(c) == c >= 65 /\ c <= 90
DistinctLetters(w) == \A i, j \in 1..Len(w) : i # j => w[i] # w[j]

\* column i of a grid, top to bottom, cut after its first n rows
GridColumn(g, i, n) == [k \in 1..n |-> g[k][i]]

\* the words the index builder accepts from the lines read so far
FilteredWords ==
    {FilterWord(raw, args[1])[1] :
        raw \in {r \in consumed : FilterWord(r, args[1]) # nullopt}}

\* every grid the dictionary admits: Height row words, pairwise without a
\* common letter, whose columns are column words
ValidGrids ==
    {g \in [1..Height -> Range(row_words_list)] :
        /\ \A a, b \in 1..Height : a < b => Letters(g[a]) \cap Letters(g[b]) = {}
        /\ \A i \in 1..Width : GridColumn(g, i, Height) \in col_words}

\* grids compared as sequences of rows, the first row most significant
GridLess(g, h) ==
    \E r \in 1..Len(g) :
        /\ r <= Len(h)
        /\ StrLess(g[r], h[r])
        /\ \A q \in 1..(r - 1) : g[q] = h[q]

DONT_RAW == Str(<<"D","O","N","'","T">>)
DONT == Str(<<"D","O","N","T">>)
AM == Str(<<"A","M">>)
HE == Str(<<"H","E">>)
XZ == Str(<<"X","Z">>)

----------------------------------------------------------------------------
(* C1: every grid printed has exactly Height rows, each of length Width and
   a word of the row word list, and every column has each of its prefixes of
   length L in entry L of col_prefixes, so the whole column is a filtered
   word of length Height. *)
C1_EmittedGridsFitRowsAndColumns ==
    \A n \in 1..Len(cout) :
        LET g == cout[n]
        IN  /\ Len(g) = Height
            /\ \A r \in 1..Len(g) :
                  /\ Len(g[r]) = Width
                  /\ g[r] \in Range(row_words_list)
            /\ \A i \in 1..Width :
                  /\ \A L \in 1..Height : GridColumn(g, i, L) \in col_prefixes[L]
                  /\ GridColumn(g, i, Height) \in FilteredWords
                  /\ Len(GridColumn(g, i, Height)) = Height

C1_Witness ==
    /\ Len(cout) >= 1
    /\ Parsed /\ Width = 2 /\ Height = 2

(* C2: no letter occurs twice in a printed grid: within a row or in two
   different rows. *)
C2_NoLetterTwiceInGrid ==
    \A n \in 1..Len(cout) :
        LET g == cout[n]
        IN  /\ \A r \in 1..Len(g) : DistinctLetters(g[r])
            /\ \A a, b \in 1..Len(g) : a # b => Letters(g[a]) \cap Letters(g[b]) = {}

C2_Witness ==
    /\ Len(cout) >= 1
    /\ Len(cout[1]) >= 2
    /\ Len(cout[1][1]) >= 2

(* C3 as stated: with use_apostrophe false (-n given) the apostrophes of a
   raw word are removed before the other checks, so DON'T is treated as
   DONT: every line read, once its apostrophes are removed, goes through the
   letter, small-word and length checks and is stored when it passes. *)
WithoutApostrophes(raw) == SelectSeq(raw, LAMBDA c : c # 39)

TreatedAsStripped ==
    \A raw \in consumed :
        LET word == Uppercased(WithoutApostrophes(raw))
        IN  (\A i \in 1..Len(word) : IsUpperLetter(word[i])) /\ DistinctLetters(word)
            /\ ~(args[1].restrict_small_words /\ Len(word) <= 2
                                              /\ word \notin legal_small_words)
            => /\ Len(word) = Width => word \in row_words
               /\ Len(word) = Height => word \in col_words

C3_StrippedWhenFlagDisabled ==
    Parsed /\ ~args[1].use_apostrophe => TreatedAsStripped

(* C3 amended: the apostrophes are removed when use_apostrophe is true (the
   default, -n not given); with use_apostrophe false (-n given) a line that
   holds an apostrophe is dropped as holding a non-letter, so every stored
   word is the upper-cased form of an apostrophe-free line. *)
C3_StrippedWhenFlagEnabled ==
    Parsed =>
        /\ args[1].use_apostrophe => TreatedAsStripped
        /\ ~args[1].use_apostrophe =>
              row_words \cup col_words \subseteq
                  {Uppercased(raw) : raw \in {r \in consumed : 39 \notin Letters(r)}}

C3_Witness ==
    /\ Parsed /\ args[1].use_apostrophe /\ Width = 4
    /\ DONT_RAW \in consumed
    /\ DONT \in row_words

(* C4: once get_word_lists has consumed the stream, row_words_list is the
   strictly ascending (hence duplicate-free) sequence of exactly the filtered
   words of length Width, and entry L of col_prefixes, for L in 1..Height, is
   exactly the set of the length-L prefixes of the filtered words of length
   Height. *)
C4_IndexIsExact ==
    IndexBuilt =>
        /\ \A n \in 1..(Len(row_words_list) - 1) :
              StrLess(row_words_list[n], row_words_list[n + 1])
        /\ Range(row_words_list) = {w \in FilteredWords : Len(w) = Width}
        /\ DOMAIN col_prefixes = 1..Height
        /\ \A L \in 1..Height :
              col_prefixes[L] =
                  {SubSeq(w, 1, L) : w \in {v \in FilteredWords : Len(v) = Height}}

C4_Witness ==
    /\ IndexBuilt
    /\ Width = 2 /\ Height = 2
    /\ Len(row_words_list) >= 3
    /\ Str(<<"a","m">>) \in consumed /\ AM \in consumed

(* C5: every accepted word (row_words, col_words, row_words_list, and so
   every indexed prefix) is made of letters A-Z only, none of them twice; a
   line whose upper-cased form holds a non-letter or a repeated letter is
   not stored. *)
C5_AcceptedWordsAreDistinctUpperLetters ==
    /\ \A w \in row_words \cup col_words \cup Range(row_words_list) :
          /\ \A i \in 1..Len(w) : IsUpperLetter(w[i])
          /\ DistinctLetters(w)
    /\ \A L \in 1..Len(col_prefixes) : \A p \in col_prefixes[L] :
          /\ \A i \in 1..Len(p) : IsUpperLetter(p[i])
          /\ DistinctLetters(p)
    /\ \A raw \in consumed :
          LET word == Uppercased(raw)
          IN  (\E i \in 1..Len(word) : ~IsUpperLetter(word[i])) \/ ~DistinctLetters(word)
              => word \notin row_words \cup col_words

C5_Witness ==
    /\ Parsed /\ Width = 2 /\ ~args[1].restrict_small_words
    /\ Str(<<"A","A">>) \in consumed
    /\ Str(<<"h","e">>) \in consumed
    /\ HE \in row_words

(* C6: with restrict_small_words set, a stored word of length <= 2 is on the
   allow-list (XZ never is a row word); with it cleared, every filtered line
   of length <= 2 is stored whether or not it is on the list. *)
C6_SmallWordsRestricted ==
    Parsed =>
        /\ args[1].restrict_small_words =>
              \A w \in row_words \cup col_words \cup Range(row_words_list) :
                  Len(w) <= 2 => w \in legal_small_words
        /\ ~args[1].restrict_small_words =>
              \A raw \in consumed :
                  LET word == Uppercased(StripApostrophes(raw, args[1].use_apostrophe))
                  IN  Len(word) <= 2 /\ ~skip_word(word)
                      => /\ Len(word) = Width => word \in row_words
                         /\ Len(word) = Height => word \in col_words

C6_Witness ==
    /\ Parsed /\ args[1].restrict_small_words /\ Width = 2
    /\ IndexBuilt
    /\ XZ \in consumed
    /\ AM \in Range(row_words_list)

(* C7: the grids are printed in strictly ascending order, grids compared as
   sequences of rows with the first row most significant and rows by the
   ascending order of the row word list, so no grid is printed twice; and
   the search is deterministic: in each of its states exactly one step is
   possible, so a second run on the same row word list, prefix index and
   height prints the same sequence. *)
C7_EmissionOrderAscending ==
    /\ \A n \in 1..(Len(cout) - 1) : GridLess(cout[n], cout[n + 1])
    /\ pc = "find_grids" =>
          Cardinality({step \in {"Reject", "Emit", "Descend", "Return"} :
              \/ step = "Reject" /\ ENABLED Reject
              \/ step = "Emit" /\ ENABLED Emit
              \/ step = "Descend" /\ ENABLED Descend
              \/ step = "Return" /\ ENABLED Return}) = 1

C7_Witness ==
    /\ Len(cout) >= 2
    /\ Len(cout[1]) = 2
    /\ Finished

(* C8 as stated: an invalid configuration (a dimension that is no number or
   does not fit an int, width <= 0, height <= 0, or width * height > 26) is
   rejected before the dictionary is read: the index builder never starts,
   nothing is searched or printed, and the exit status is failure.  A
   dimension counts as a number when std::stoi finds one at its start. *)
InvalidConfiguration ==
    /\ Len(argv.pos) = 2
    /\ LET w == Stoi(argv.pos[1])
           h == Stoi(argv.pos[2])
       IN  \/ w.threw # ""
           \/ h.threw # ""
           \/ w.value <= 0
           \/ h.value <= 0
           \/ w.value > ALPHABET_LEN \div h.value

C8_InvalidConfigurationRejected ==
    InvalidConfiguration =>
        /\ dictionary = "unopened"
        /\ pc \in {"parse_arguments", "exit"}
        /\ pc = "exit" => status = "EXIT_FAILURE"
        /\ cout = <<>>

(* C9: the candidate list of the call at depth d is the sub-sequence, in
   unchanged order, of the row word list made of the words without a letter
   in common with any of the d rows placed on the way to that call; each
   call holds the rows of its caller plus the caller's current word; and a
   step that returns from a call leaves the candidate list and the rows of
   every remaining call as they were. *)
CandidatesOf(rows) ==
    SelectSeq(row_words_list,
              LAMBDA w : \A r \in 1..Len(rows) : Letters(w) \cap Letters(rows[r]) = {})

FramesAreReductions ==
    \A d \in 1..Len(stack) :
        /\ Len(stack[d].rows) = d - 1
        /\ stack[d].word_list = CandidatesOf(stack[d].rows)
        /\ d > 1 => /\ stack[d].rows =
                          Append(stack[d - 1].rows, stack[d - 1].word_list[stack[d - 1].i])
                    /\ Letters(stack[d].word_list) \subseteq Letters(stack[d - 1].word_list)

CallersUntouched ==
    Len(stack') < Len(stack) =>
        \A d \in 1..Len(stack') :
            /\ stack'[d].word_list = stack[d].word_list
            /\ stack'[d].rows = stack[d].rows

C9_FramesIsolated == [](FramesAreReductions) /\ [][CallersUntouched]_vars

C9_Witness ==
    /\ Len(stack) = 2
    /\ stack[2].i > Len(stack[2].word_list)
    /\ Len(stack[1].word_list) = 4
    /\ Len(stack[2].word_list) = 1
    /\ Len(cout) = 1

(* C10: the search is complete and terminates: when it is over, the grids
   printed are exactly the valid grids (Height row words, pairwise without a
   common letter, every column a column word), each printed once; and a
   search that has started comes to its end. *)
SearchComplete ==
    Finished =>
        /\ {cout[n] : n \in 1..Len(cout)} = ValidGrids
        /\ Cardinality(ValidGrids) = Len(cout)

C10_SearchCompleteAndTerminates ==
    [](SearchComplete) /\ (pc = "find_grids" ~> pc = "exit")

C10_Witness ==
    /\ Finished
    /\ Len(cout) = 2
    /\ Width = 2 /\ Height = 2

====
